---- MODULE Spec2Model ----
(***************************************************************************)
(* Model of svelte-check-daemon: the output parser and process supervisor  *)
(* of SvelteCheckDaemon (src/src/daemon.ts), its socket server, and the    *)
(* client query helper getStatusFromDaemon (src/src/client.ts).            *)
(*                                                                         *)
(* Text is a sequence of one-character strings, so that chunk boundaries   *)
(* can fall anywhere and the regular expressions of the source are         *)
(* computed character by character.                                        *)
(***************************************************************************)
EXTENDS Integers, Sequences, FiniteSets, TLC

(***************************************************************************)
(* Bounds of the model.                                                    *)
(***************************************************************************)
\* number of output blocks a checker stream is made of (parser specification)
MaxBlocks == 2
\* number of checker processes the daemon spawns
MaxProcs == 3
\* number of chunks the checker processes deliver in all (daemon specification)
MaxData == 1
\* number of 'data' events on one connection of the socket server
MaxRequests == 2
\* number of debounce timers the route-file watcher sets
MaxTimers == 2

(***************************************************************************)
(* Program constants: the phrases and thresholds of the source.            *)
(***************************************************************************)
\* 'Getting Svelte diagnostics...'
StartMarkerText ==
    <<"G","e","t","t","i","n","g"," ","S","v","e","l","t","e"," ","d","i","a","g","n","o","s","t","i","c","s",".",".",".">>
\* the literal parts of /svelte-check found (\d+) errors? and (\d+) warnings?/
SummaryFound ==
    <<"s","v","e","l","t","e","-","c","h","e","c","k"," ","f","o","u","n","d"," ">>
SummaryError ==
    <<" ","e","r","r","o","r">>
SummaryAnd ==
    <<" ","a","n","d"," ">>
SummaryWarning ==
    <<" ","w","a","r","n","i","n","g">>
\* 'Watching for file changes...'
WatchingText ==
    <<"W","a","t","c","h","i","n","g"," ","f","o","r"," ","f","i","l","e"," ","c","h","a","n","g","e","s",".",".",".">>
\* the shortest run of '=' that /={36,}\n?/ removes
SeparatorMin == 36
\* the delay of the debounce timer, in ms
DebounceMs == 250

Digits == {"0","1","2","3","4","5","6","7","8","9"}
\* the characters String.prototype.trim / trimEnd strip, as far as the model's alphabet has them
Whitespace == {" ", "\n", "\t", "\r"}

(***************************************************************************)
(* String primitives of JavaScript, on character sequences.                *)
(***************************************************************************)
\* s.startsWith(p, i-1): the non-empty p occurs in s at (1-based) position i
IsPrefixAt(s, p, i) ==
    /\ i >= 1
    /\ i + Len(p) - 1 <= Len(s)
    /\ s[i] = p[1]
    /\ \A j \in 2..Len(p) : s[i + j - 1] = p[j]

\* s.includes(p)
includes(s, p) ==
    \E i \in 1..(Len(s) - Len(p) + 1) : s[i] = p[1] /\ IsPrefixAt(s, p, i)

Min(S) == CHOOSE x \in S : \A y \in S : x <= y
Max(S) == CHOOSE x \in S : \A y \in S : x >= y

\* s.split('\n'): the pieces between newlines; always at least one piece
RECURSIVE split(_)
split(s) ==
    LET nl == {i \in 1..Len(s) : s[i] = "\n"}
    IN  IF nl = {} THEN <<s>>
        ELSE LET i == Min(nl)
             IN  <<SubSeq(s, 1, i - 1)>> \o split(SubSeq(s, i + 1, Len(s)))

\* index of the last non-whitespace character of s at or before i (0 if none)
RECURSIVE LastNonSpace(_, _)
LastNonSpace(s, i) ==
    IF i = 0 \/ s[i] \notin Whitespace THEN i ELSE LastNonSpace(s, i - 1)

\* index of the first non-whitespace character of s at or after i (Len(s) + 1 if none)
RECURSIVE FirstNonSpace(_, _)
FirstNonSpace(s, i) ==
    IF i > Len(s) \/ s[i] \notin Whitespace THEN i ELSE FirstNonSpace(s, i + 1)

\* s.trimEnd()
trimEnd(s) == SubSeq(s, 1, LastNonSpace(s, Len(s)))

\* s.trim()
trim(s) == SubSeq(s, FirstNonSpace(s, 1), LastNonSpace(s, Len(s)))

\* length of the run of characters of class C that starts at position i
RECURSIVE RunLen(_, _, _)
RunLen(s, i, C) ==
    IF i > Len(s) \/ s[i] \notin C THEN 0 ELSE 1 + RunLen(s, i + 1, C)

DigitVal(c) ==
    CASE c = "0" -> 0 [] c = "1" -> 1 [] c = "2" -> 2 [] c = "3" -> 3 [] c = "4" -> 4
      [] c = "5" -> 5 [] c = "6" -> 6 [] c = "7" -> 7 [] c = "8" -> 8 [] c = "9" -> 9

\* parseInt(ds, 10) for a non-empty string of decimal digits
RECURSIVE parseInt(_)
parseInt(ds) ==
    IF Len(ds) = 0 THEN 0
    ELSE 10 * parseInt(SubSeq(ds, 1, Len(ds) - 1)) + DigitVal(ds[Len(ds)])

(***************************************************************************)
(* The regular expressions of handleLine.                                  *)
(***************************************************************************)
NoMatch == [matched |-> FALSE, errors |-> <<>>, warnings |-> <<>>]

\* /svelte-check found (\d+) errors? and (\d+) warnings?/ tried at position i.
\* \d+ is greedy and is followed by a space, and the optional 's' is followed
\* by a space, so no backtracking yields another match.
SummaryMatchAt(line, i) ==
    IF ~IsPrefixAt(line, SummaryFound, i) THEN NoMatch
    ELSE
      LET e1 == i + Len(SummaryFound)
          n1 == RunLen(line, e1, Digits)
          p1 == e1 + n1
          p2 == p1 + Len(SummaryError)
          p3 == IF p2 <= Len(line) /\ line[p2] = "s" THEN p2 + 1 ELSE p2
          e2 == p3 + Len(SummaryAnd)
          n2 == RunLen(line, e2, Digits)
          p4 == e2 + n2
      IN  IF /\ n1 >= 1
             /\ IsPrefixAt(line, SummaryError, p1)
             /\ IsPrefixAt(line, SummaryAnd, p3)
             /\ n2 >= 1
             /\ IsPrefixAt(line, SummaryWarning, p4)
          THEN [matched |-> TRUE,
                errors |-> SubSeq(line, e1, p1 - 1),
                warnings |-> SubSeq(line, e2, p4 - 1)]
          ELSE NoMatch

\* the length of the shortest text the pattern matches
SummaryMinLen ==
    Len(SummaryFound) + 1 + Len(SummaryError) + Len(SummaryAnd) + 1 + Len(SummaryWarning)

\* line.match(/svelte-check found (\d+) errors? and (\d+) warnings?/): the leftmost match
summaryMatch(line) ==
    LET at == {i \in 1..(Len(line) - SummaryMinLen + 1) : SummaryMatchAt(line, i).matched}
    IN  IF at = {} THEN NoMatch ELSE SummaryMatchAt(line, Min(at))

\* s.replace(/={36,}\n?/g, ''), from position i on: the leftmost match is cut out,
\* as long as the greedy run goes and with the newline after it if there is one,
\* and the search goes on behind it. A match can only begin where a run of '='
\* begins (or at i): inside a run the rest of the run is shorter still.
RECURSIVE replaceSeparatorsFrom(_, _)
replaceSeparatorsFrom(s, i) ==
    LET at == {j \in i..(Len(s) - SeparatorMin + 1) :
                 /\ s[j] = "="
                 /\ (j = i \/ s[j - 1] # "=")
                 /\ RunLen(s, j, {"="}) >= SeparatorMin}
    IN  IF at = {} THEN SubSeq(s, i, Len(s))
        ELSE LET j == Min(at)
                 e == j + RunLen(s, j, {"="})
             IN  SubSeq(s, i, j - 1)
                 \o replaceSeparatorsFrom(s, IF e <= Len(s) /\ s[e] = "\n" THEN e + 1 ELSE e)

replaceSeparators(s) == replaceSeparatorsFrom(s, 1)

\* s.replace(/Watching for file changes\.\.\.\n?/g, ''), from position i on
RECURSIVE replaceWatchingFrom(_, _)
replaceWatchingFrom(s, i) ==
    LET at == {j \in i..(Len(s) - Len(WatchingText) + 1) : IsPrefixAt(s, WatchingText, j)}
    IN  IF at = {} THEN SubSeq(s, i, Len(s))
        ELSE LET j == Min(at)
                 e == j + Len(WatchingText)
             IN  SubSeq(s, i, j - 1)
                 \o replaceWatchingFrom(s, IF e <= Len(s) /\ s[e] = "\n" THEN e + 1 ELSE e)

replaceWatching(s) == replaceWatchingFrom(s, 1)

(***************************************************************************)
(* State.                                                                  *)
(***************************************************************************)
VARIABLES
    \* SvelteCheckDaemon fields (daemon.ts:23-42)
    lastCompleteState,  \* the snapshot: [output, hasErrors, hasWarnings, isComplete, lastUpdate]
    currentOutput,      \* accumulation buffer
    lineBuffer,         \* partial-line buffer
    \* history of the parser
    committed,          \* the snapshots committed by the summary branch of handleLine, in order
    \* the checker's output stream of the parser specification
    stream,             \* the blocks of text the checker process writes
    delivered,          \* how many characters of it the pipe has delivered to handleOutput
    cuts,               \* which phrases a chunk boundary has fallen inside: "start", "summary"
    now,                \* Date.now()
    \* the daemon process and the rest of its fields
    phase,              \* "constructed", "starting" (start() awaits listen), "running", "exited"
    svelteCheckProcess, \* the supervisor's handle: a process number, or 0 for null
    procs,              \* the checker processes spawned so far: [killed, exited, sent]
    server,             \* "null", "listening", "closed"
    routeFileWatcher,   \* "null", "open", "closed"
    gitHeadWatcher,     \* "null", "open", "closed"
    bigChangesWatcher,  \* "null", "open", "closed"
    syncDebounceTimer,  \* the handle of the debounce timer: a timer number, or 0 for null
    knownFiles,         \* the known-file set
    \* the environment of the daemon
    env,                \* [git: inside a repository, bigChanges: SVELTE_CHECK_WATCH_BIG_CHANGES set]
    files,              \* the files that exist in the watched directory
    pidFile,            \* content of the PID marker: "none", "stale", "self"
    socketFile,         \* the endpoint artifact: "none", "stale", "self"
    \* one call of getStatusFromDaemon (client.ts)
    promise,            \* [state: "idle", "pending", "resolved"; value: the JSON value it resolved to]
    socket,             \* the client's socket: "none", "connecting", "connected", "ended", "errored", "destroyed"
    clientData,         \* the local `data`: the text received so far
    timer,              \* the 5000 ms timer: "none", "pending", "fired"
    wire,               \* what the peer of the client sends before it closes
    \* the connections the socket server has accepted (daemon.ts:240-248)
    conns,              \* per connection [state, requests, calls]
    inflight,           \* the connections whose request the server has not read yet
    \* the one-shot `svelte-kit sync` process of the debounce timer (daemon.ts:159-164)
    syncProcess,        \* [running: spawnSync has not returned, runs: how often it was spawned]
    timers,             \* the timers setTimeout has created so far: [state: "pending", "fired", "cleared"; due]
    \* shutdown() step by step (daemon.ts:279-300)
    shutdownPc,         \* the number of steps shutdown() has done, 0 before it is called
    \* another daemon instance started on the same workspace
    otherPhase,         \* "none", "constructed", "starting", "running", "exited"
    \* one run of the check command (svelte-check-daemon.js:36-88)
    check               \* [pc, status, elapsed, exitCode, message]

parserVars == <<lastCompleteState, currentOutput, lineBuffer, committed>>
streamVars == <<stream, delivered, cuts>>
processVars == <<svelteCheckProcess, procs>>
watcherVars == <<routeFileWatcher, gitHeadWatcher, bigChangesWatcher, syncDebounceTimer, knownFiles>>
lifeVars == <<phase, server, pidFile, socketFile, env>>
daemonVars == <<processVars, watcherVars, lifeVars, files>>
clientVars == <<promise, socket, clientData, timer, wire>>
netVars == <<clientVars, conns>>
auxVars == <<inflight, syncProcess, timers, shutdownPc, otherPhase, check>>
vars == <<parserVars, streamVars, now, daemonVars, netVars, auxVars>>

\* the JSON value null
JsonNull == [type |-> "null"]

\* the connections of the model
Conns == {1, 2}

\* a connection the server has not accepted yet
NoConnection == [state |-> "none", requests |-> <<>>, calls |-> <<>>]

\* no client call has been made and no connection has been accepted
NetIdle ==
    /\ promise = [state |-> "idle", value |-> JsonNull]
    /\ socket = "none"
    /\ clientData = <<>>
    /\ timer = "none"
    /\ wire = <<>>
    /\ conns = [c \in Conns |-> NoConnection]

\* the check command before it is run
CheckIdle ==
    [pc |-> "idle", status |-> JsonNull, elapsed |-> 0, exitCode |-> -1, message |-> "none"]

\* no request is on its way, no sync process has run, shutdown() has not been
\* called, there is no other instance and the check command has not been run
AuxIdle ==
    /\ inflight = {}
    /\ syncProcess = [running |-> FALSE, runs |-> 0]
    /\ timers = <<>>
    /\ shutdownPc = 0
    /\ otherPhase = "none"
    /\ check = CheckIdle

(***************************************************************************)
(* The output parser: handleOutput and handleLine, on the record `self`    *)
(* of the daemon fields they read and write.                               *)
(***************************************************************************)
\* field initialisers of the class (daemon.ts:23-35)
InitialSnapshot(t) ==
    [output |-> <<>>, hasErrors |-> FALSE, hasWarnings |-> FALSE,
     isComplete |-> FALSE, lastUpdate |-> t]

InitialParser(t) ==
    [lastCompleteState |-> InitialSnapshot(t),
     currentOutput |-> <<>>,
     lineBuffer |-> <<>>,
     committed |-> <<>>]

\* handleLine as it would be if the accumulation buffer were not reset after a finalize
handleLineKeepsBuffer(self, line, t) ==
    LET acc == self.currentOutput \o line \o <<"\n">>
        summary == summaryMatch(line)
    IN  IF summary.matched
        THEN LET snapshot == [output |-> trimEnd(replaceWatching(replaceSeparators(acc))),
                              hasErrors |-> parseInt(summary.errors) > 0,
                              hasWarnings |-> parseInt(summary.warnings) > 0,
                              isComplete |-> TRUE,
                              lastUpdate |-> t]
             IN  [self EXCEPT !.lastCompleteState = snapshot,
                              !.currentOutput = acc,
                              !.committed = Append(@, snapshot)]
        ELSE [self EXCEPT !.currentOutput = acc]

\* handleLine as it would be if a finalize wrote the flags into the snapshot and left its output
handleLineKeepsOutput(self, line, t) ==
    LET acc == self.currentOutput \o line \o <<"\n">>
        summary == summaryMatch(line)
    IN  IF summary.matched
        THEN LET snapshot == [self.lastCompleteState EXCEPT
                                  !.hasErrors = parseInt(summary.errors) > 0,
                                  !.hasWarnings = parseInt(summary.warnings) > 0,
                                  !.isComplete = TRUE,
                                  !.lastUpdate = t]
             IN  [self EXCEPT !.lastCompleteState = snapshot,
                              !.currentOutput = <<>>,
                              !.committed = Append(@, snapshot)]
        ELSE [self EXCEPT !.currentOutput = acc]

\* handleLine(line), with t the value of Date.now()
handleLine(self, line, t) ==
    LET acc == self.currentOutput \o line \o <<"\n">>
        summary == summaryMatch(line)
    IN  IF summary.matched
        THEN LET errorCount == parseInt(summary.errors)
                 warningCount == parseInt(summary.warnings)
                 output == trimEnd(replaceWatching(replaceSeparators(acc)))
                 snapshot == [output |-> output,
                              hasErrors |-> errorCount > 0,
                              hasWarnings |-> warningCount > 0,
                              isComplete |-> TRUE,
                              lastUpdate |-> t]
             IN  [self EXCEPT !.lastCompleteState = snapshot,
                              !.currentOutput = <<>>,
                              !.committed = Append(@, snapshot)]
        ELSE [self EXCEPT !.currentOutput = acc]

\* a loop that hands the lines to handleLine from the last to the first
RECURSIVE handleLinesReversed(_, _, _)
handleLinesReversed(self, lines, t) ==
    IF lines = <<>> THEN self
    ELSE handleLinesReversed(handleLine(self, lines[Len(lines)], t),
                             SubSeq(lines, 1, Len(lines) - 1), t)

\* for (const line of lines) this.handleLine(line)
RECURSIVE handleLines(_, _, _)
handleLines(self, lines, t) ==
    IF lines = <<>> THEN self
    ELSE handleLines(handleLine(self, Head(lines), t), Tail(lines), t)

\* handleOutput as it would be if the partial line of the previous chunk were dropped
handleOutputDropsPartial(self, data, t) ==
    LET marked == IF includes(data, StartMarkerText)
                  THEN [self EXCEPT !.lastCompleteState.isComplete = FALSE,
                                    !.lastCompleteState.lastUpdate = t]
                  ELSE self
        lines == split(data)
        popped == [marked EXCEPT !.lineBuffer = lines[Len(lines)]]
    IN  handleLines(popped, SubSeq(lines, 1, Len(lines) - 1), t)

\* handleOutput(data), with t the value of Date.now()
handleOutput(self, data, t) ==
    LET marked == IF includes(data, StartMarkerText)
                  THEN [self EXCEPT !.lastCompleteState.isComplete = FALSE,
                                    !.lastCompleteState.lastUpdate = t]
                  ELSE self
        lines == split(marked.lineBuffer \o data)
        popped == [marked EXCEPT !.lineBuffer = lines[Len(lines)]]
    IN  handleLines(popped, SubSeq(lines, 1, Len(lines) - 1), t)

\* the daemon fields as the record the parser works on
Self ==
    [lastCompleteState |-> lastCompleteState,
     currentOutput |-> currentOutput,
     lineBuffer |-> lineBuffer,
     committed |-> committed]

SetSelf(self) ==
    /\ lastCompleteState' = self.lastCompleteState
    /\ currentOutput' = self.currentOutput
    /\ lineBuffer' = self.lineBuffer
    /\ committed' = self.committed

(***************************************************************************)
(* Parser specification: one checker process writes a stream, which the    *)
(* pipe delivers to handleOutput cut into chunks at arbitrary positions.   *)
(***************************************************************************)
Repeat(c, n) == [i \in 1..n |-> c]
NL == <<"\n">>

\* lines of svelte-check --watch --output human-verbose
StartLine == StartMarkerText \o NL
SeparatorLine == Repeat("=", SeparatorMin) \o NL
WatchingLine == WatchingText \o NL
Summary00 ==
    SummaryFound \o <<"0">> \o SummaryError \o <<"s">> \o SummaryAnd \o <<"0">> \o SummaryWarning \o <<"s">> \o NL
Summary31 ==
    SummaryFound \o <<"3">> \o SummaryError \o <<"s">> \o SummaryAnd \o <<"1">> \o SummaryWarning \o NL
\* a code frame line that holds a long run of '=' after other text
FrameLine == <<"/","/"," ">> \o Repeat("=", SeparatorMin + 1) \o NL

\* what the checker writes, by name
BlockText(b) ==
    CASE b = "start" -> StartLine
      [] b = "separator" -> SeparatorLine
      [] b = "watching" -> WatchingLine
      [] b = "summary00" -> Summary00
      [] b = "summary31" -> Summary31
      [] b = "frame" -> FrameLine

Blocks == {"start", "separator", "watching", "summary00", "summary31", "frame"}

RECURSIVE Concat(_)
Concat(ss) == IF ss = <<>> THEN <<>> ELSE Head(ss) \o Concat(Tail(ss))

\* the text of a sequence of blocks
TextOf(bs) == Concat([i \in 1..Len(bs) |-> BlockText(bs[i])])

Streams == UNION {[1..n -> Blocks] : n \in 1..MaxBlocks}

\* a chunk boundary after position pos of text, which leaves the partial line rest
\* behind, falls strictly inside an occurrence of phrase that begins that line
CutsPhrase(text, phrase, pos, rest) ==
    /\ Len(rest) \in 1..(Len(phrase) - 1)
    /\ IsPrefixAt(text, phrase, pos - Len(rest) + 1)

\* the text delivered to handleOutput so far
consumed == SubSeq(TextOf(stream), 1, delivered)

\* a checker process just spawned
NewProcess == [killed |-> FALSE, exited |-> FALSE, sent |-> 0]

\* the daemon after start() outside a repository and without a big-changes
\* directory, with its first checker process running
DaemonStarted ==
    /\ phase = "running"
    /\ svelteCheckProcess = 1
    /\ procs = <<NewProcess>>
    /\ server = "listening"
    /\ routeFileWatcher = "open"
    /\ gitHeadWatcher = "null"
    /\ bigChangesWatcher = "null"
    /\ syncDebounceTimer = 0
    /\ knownFiles = {}
    /\ env = [git |-> FALSE, bigChanges |-> FALSE]
    /\ files = {}
    /\ pidFile = "self"
    /\ socketFile = "self"

InitParser ==
    /\ now = 0
    /\ lastCompleteState = InitialSnapshot(now)
    /\ currentOutput = <<>>
    /\ lineBuffer = <<>>
    /\ committed = <<>>
    /\ stream \in Streams
    /\ delivered = 0
    /\ cuts = {}
    /\ DaemonStarted
    /\ NetIdle
    /\ AuxIdle

\* stdout 'data' callback with the next k characters of the stream (daemon.ts:181-183)
DeliverChunk(text, k) ==
    /\ k \in 1..(Len(text) - delivered)
    /\ LET data == SubSeq(text, delivered + 1, delivered + k)
           pos == delivered + k
       IN  \E after \in {handleOutput(Self, data, now)} :
               /\ SetSelf(after)
               /\ delivered' = pos
               /\ cuts' = cuts \cup (IF CutsPhrase(text, StartMarkerText, pos, after.lineBuffer) THEN {"start"} ELSE {})
                               \cup (IF CutsPhrase(text, SummaryFound, pos, after.lineBuffer) THEN {"summary"} ELSE {})
    /\ UNCHANGED <<stream, now, auxVars, daemonVars, netVars>>

NextParser ==
    LET text == TextOf(stream)
    IN  \E k \in 1..Len(text) : DeliverChunk(text, k)

SpecParser == InitParser /\ [][NextParser]_vars

(***************************************************************************)
(* Claims about the parser, checked under SpecParser; the claims about     *)
(* handleLine (C5, C21) are checked under SpecLines.                       *)
(***************************************************************************)
\* a snapshot without its timestamp
Shown(snap) ==
    [output |-> snap.output, hasErrors |-> snap.hasErrors,
     hasWarnings |-> snap.hasWarnings, isComplete |-> snap.isComplete]

ShownAll(snaps) == [i \in 1..Len(snaps) |-> Shown(snaps[i])]

\* C1: however the stream delivered so far was cut into chunks, the snapshots
\* finalize has committed are the ones it commits when the same text is
\* delivered as a single chunk.
C1_ChunkingIndependent ==
    ShownAll(committed) = ShownAll(handleOutput(InitialParser(now), consumed, now).committed)

\* C1 witness: a whole stream was delivered with one chunk boundary inside the
\* start marker and one inside a summary phrase, and its summary was committed.
C1_Witness ==
    /\ delivered = Len(TextOf(stream))
    /\ cuts = {"start", "summary"}
    /\ Len(committed) >= 1

\* the positions of text at which a start marker begins
StartPositions(text) ==
    {i \in 1..Len(text) : IsPrefixAt(text, StartMarkerText, i)}

\* the positions of text at which a summary begins whose line is complete
SummaryPositions(text) ==
    {i \in 1..Len(text) :
        /\ SummaryMatchAt(text, i).matched
        /\ \E j \in i..Len(text) : text[j] = "\n"}

\* the most recent marker of text is a start marker
LastMarkerIsStart(text) ==
    /\ StartPositions(text) # {}
    /\ \A j \in SummaryPositions(text) : j < Max(StartPositions(text))

\* C4: while the most recent marker of the text delivered so far is a start
\* marker with no summary line after it, the snapshot is not complete.
C4_StartMarkerMeansIncomplete ==
    LastMarkerIsStart(consumed) => ~lastCompleteState.isComplete

\* the complete lines of text
CompleteLines(text) ==
    LET ls == split(text) IN SubSeq(ls, 1, Len(ls) - 1)

RECURSIVE JoinLines(_)
JoinLines(ls) ==
    IF ls = <<>> THEN <<>> ELSE Head(ls) \o NL \o JoinLines(Tail(ls))

\* the indices of the lines that hold a summary
SummaryLines(ls) == {i \in 1..Len(ls) : summaryMatch(ls[i]).matched}

\* the lines accumulated for the summary at line i: those after the summary before it
AccumulatedFor(ls, i) ==
    SubSeq(ls, Max({j \in SummaryLines(ls) : j < i} \cup {0}) + 1, i)

\* a count is positive: one of its digits is not 0
Positive(ds) == \E j \in 1..Len(ds) : ds[j] # "0"

\* out is text with its trailing whitespace cut off
IsTrimEndOf(out, text) ==
    /\ Len(out) <= Len(text)
    /\ out = SubSeq(text, 1, Len(out))
    /\ \A j \in (Len(out) + 1)..Len(text) : text[j] \in Whitespace
    /\ Len(out) = 0 \/ out[Len(out)] \notin Whitespace

\* what finalize has committed and left behind agrees with the lines delivered,
\* given what the cleaning of the accumulated lines is to yield
FinalizeAgrees(Cleaned(_)) ==
    LET ls == CompleteLines(consumed)
        at == SummaryLines(ls)
    IN  /\ Len(committed) = Cardinality(at)
        /\ \A i \in at :
             LET snap == committed[Cardinality({j \in at : j <= i})]
                 m == summaryMatch(ls[i])
             IN  /\ snap.hasErrors = Positive(m.errors)
                 /\ snap.hasWarnings = Positive(m.warnings)
                 /\ snap.isComplete
                 /\ IsTrimEndOf(snap.output, Cleaned(AccumulatedFor(ls, i)))
        /\ currentOutput = JoinLines(SubSeq(ls, Max(at \cup {0}) + 1, Len(ls)))
        /\ committed # <<>> =>
             /\ lastCompleteState.output = committed[Len(committed)].output
             /\ lastCompleteState.hasErrors = committed[Len(committed)].hasErrors
             /\ lastCompleteState.hasWarnings = committed[Len(committed)].hasWarnings
        /\ (ls # <<>> /\ Len(ls) \in at /\ lineBuffer = <<>>) =>
             lastCompleteState = committed[Len(committed)]

IsSeparatorLine(l) == Len(l) >= SeparatorMin /\ \A j \in 1..Len(l) : l[j] = "="
IsFooterLine(l) == l = WatchingText
IsReportLine(l) == ~IsSeparatorLine(l) /\ ~IsFooterLine(l)

\* the lines without the separator lines and the footer lines
WithoutCosmeticLines(ls) == JoinLines(SelectSeq(ls, IsReportLine))

\* C5 as stated: the committed output is the accumulated lines without the
\* separator lines and the footer lines, trimmed; the flags are N > 0 and M > 0;
\* the accumulation buffer is empty after the finalize.
C5_OutputWithoutCosmeticLines == FinalizeAgrees(WithoutCosmeticLines)

\* text without the positions in del, from position i on
RECURSIVE Without(_, _, _)
Without(text, del, i) ==
    IF i > Len(text) THEN <<>>
    ELSE IF i \in del
    THEN Without(text, del, Min({j \in i..(Len(text) + 1) : j \notin del}))
    ELSE LET e == Min({j \in i..(Len(text) + 1) : j \in del \/ j = Len(text) + 1})
         IN  SubSeq(text, i, e - 1) \o Without(text, del, e)

\* position p of text lies in a run of c of at least n characters
InLongRun(text, p, c, n) ==
    \E a \in 1..p : \E b \in p..Len(text) :
        /\ b - a + 1 >= n
        /\ \A j \in a..b : text[j] = c

\* the positions of the runs of 36 or more '=' and of the newline right after each
SeparatorPositions(text) ==
    {p \in 1..Len(text) :
        \/ text[p] = "=" /\ InLongRun(text, p, "=", SeparatorMin)
        \/ text[p] = "\n" /\ p > 1 /\ text[p - 1] = "="
                          /\ InLongRun(text, p - 1, "=", SeparatorMin)}

\* the positions of the occurrences of the footer phrase and of the newline right after each
WatchingPositions(text) ==
    {p \in 1..Len(text) :
        \/ \E i \in (p - Len(WatchingText) + 1)..p : IsPrefixAt(text, WatchingText, i)
        \/ text[p] = "\n" /\ IsPrefixAt(text, WatchingText, p - Len(WatchingText))}

\* the lines without the long runs of '=' and then without the footer phrases,
\* wherever in a line they stand
WithoutCosmeticText(ls) ==
    LET text == JoinLines(ls)
        body == Without(text, SeparatorPositions(text), 1)
    IN  Without(body, WatchingPositions(body), 1)

\* C5 as amended: the committed output is the accumulated text with every run of
\* 36 or more '=' and every footer phrase cut out, each with the newline right
\* after it, wherever in a line it stands, and trimmed; the flags are N > 0 and
\* M > 0; the accumulation buffer is empty after the finalize.
C5_OutputWithoutCosmeticText == FinalizeAgrees(WithoutCosmeticText)

\* C5 witness: 3 errors and 1 warning were committed for text that held a long
\* run of '=', and the committed output holds no '=' any more.
C5_Witness ==
    /\ Len(committed) = 1
    /\ committed[1].hasErrors /\ committed[1].hasWarnings
    /\ includes(consumed, Repeat("=", SeparatorMin))
    /\ ~includes(committed[1].output, <<"=">>)
    /\ currentOutput = <<>>

(***************************************************************************)
(* The parser fed whole lines: the pipe ends a chunk at the end of a line, *)
(* one character before it or one character after it, so that a chunk      *)
(* holds any number of complete lines between two partial ones.            *)
(***************************************************************************)
\* the positions of text at which a chunk ends
ChunkEnds(text) ==
    {p \in 1..Len(text) :
        \/ text[p] = "\n"
        \/ p < Len(text) /\ text[p + 1] = "\n"
        \/ p > 1 /\ text[p - 1] = "\n"}

NextLines ==
    LET text == TextOf(stream)
    IN  \E p \in ChunkEnds(text) : DeliverChunk(text, p - delivered)

SpecLines == InitParser /\ [][NextLines]_vars

\* C21: a chunk that completes n summary lines adds n snapshots to what was
\* committed, in the order of the lines; the k-th holds the flags of the k-th
\* of these lines and, cleaned and trimmed, the lines after the summary line
\* before it up to itself; and the snapshot after the chunk is the last of them.
C21_EachSummaryLineFinalizes ==
    [][\A ls \in {CompleteLines(consumed')} : \A old \in {Len(CompleteLines(consumed))} :
       \A new \in {{i \in SummaryLines(ls) : i > old}} :
          LET n == Cardinality(new)
          IN  /\ Len(committed') = Len(committed) + n
              /\ SubSeq(committed', 1, Len(committed)) = committed
              /\ \A i \in new :
                     LET snap == committed'[Len(committed) + Cardinality({j \in new : j <= i})]
                         m == summaryMatch(ls[i])
                     IN  /\ snap.hasErrors = Positive(m.errors)
                         /\ snap.hasWarnings = Positive(m.warnings)
                         /\ snap.isComplete
                         /\ IsTrimEndOf(snap.output, WithoutCosmeticText(AccumulatedFor(ls, i)))
              /\ n > 0 => lastCompleteState' = committed'[Len(committed')]]_vars

\* C21 witness: a stream of two summary lines was delivered whole; two
\* snapshots were committed, the first without errors, the second with
\* errors, and the snapshot is the second.
C21_Witness ==
    /\ stream = <<"summary00", "summary31">>
    /\ delivered = Len(TextOf(stream))
    /\ cuts = {}
    /\ Len(committed) = 2
    /\ ~committed[1].hasErrors /\ committed[2].hasErrors
    /\ lastCompleteState = committed[2]

\* the part of text that its last newline ends, empty if it holds none
Terminated(text) ==
    LET ends == {p \in 1..Len(text) : text[p] = "\n"}
    IN  IF ends = {} THEN <<>> ELSE SubSeq(text, 1, Max(ends))

\* the part of text after its last newline
Unterminated(text) == SubSeq(text, Len(Terminated(text)) + 1, Len(text))

\* C22: the snapshot after a chunk is the one the lines that the chunk
\* completes give, the unterminated text at the end of the chunk changing
\* nothing (a chunk that completes no line leaves the snapshot as it is);
\* and the partial-line buffer then holds no newline and is the unterminated
\* tail of the text received.
C22_OnlyCompleteLinesEvaluated ==
    [][\A data \in {SubSeq(consumed', delivered + 1, delivered')} :
          /\ lastCompleteState' =
                 IF Terminated(data) = <<>> THEN lastCompleteState
                 ELSE handleOutput(Self, Terminated(data), now).lastCompleteState
          /\ ~includes(lineBuffer', NL)
          /\ lineBuffer' = Unterminated(consumed')]_vars

(***************************************************************************)
(* The daemon: process supervisor, change watchers, lifecycle.             *)
(***************************************************************************)
\* the files of the directory the big-changes watcher watches
Paths == {"a.ts"}
\* fs.watch reports an event without a file name
NoName == "null"

\* the text a checker process writes carries the number of the process
TagChars == <<"1","2","3","4","5","6","7","8","9">>
Tag(p) == TagChars[p]
\* a diagnostic line and the beginning of the next one
DiagnosticText(p) == <<"E", Tag(p)>> \o NL \o <<"E", Tag(p)>>
SummaryLine(p) ==
    SummaryFound \o <<Tag(p)>> \o SummaryError \o <<"s">> \o SummaryAnd \o <<"0">> \o SummaryWarning \o <<"s">> \o NL
\* the chunks the pipe of process p delivers
Chunks(p) == {StartLine, DiagnosticText(p), SummaryLine(p)}

RECURSIVE SumSent(_)
SumSent(ps) == IF ps = <<>> THEN 0 ELSE Head(ps).sent + SumSent(Tail(ps))

\* the event loop of the daemon process runs callbacks: the process has not
\* exited and is not inside a spawnSync call
Alive == phase \in {"starting", "running"} /\ ~syncProcess.running

\* restartSvelteCheck as it would be if the partial-line buffer were not reset
restartKeepsLineBuffer ==
    /\ Len(procs) < MaxProcs
    /\ procs' = Append(IF svelteCheckProcess # 0
                       THEN [procs EXCEPT ![svelteCheckProcess].killed = TRUE]
                       ELSE procs,
                       NewProcess)
    /\ svelteCheckProcess' = Len(procs) + 1
    /\ currentOutput' = <<>>
    /\ lineBuffer' = lineBuffer
    /\ lastCompleteState' = InitialSnapshot(now)
    /\ committed' = <<>>

\* restartSvelteCheck(): kill the process of the handle, reset the parser and the
\* snapshot, startSvelteCheck() (daemon.ts:133-148, 170-192)
restartSvelteCheck ==
    /\ Len(procs) < MaxProcs
    /\ procs' = Append(IF svelteCheckProcess # 0
                       THEN [procs EXCEPT ![svelteCheckProcess].killed = TRUE]
                       ELSE procs,
                       NewProcess)
    /\ svelteCheckProcess' = Len(procs) + 1
    /\ currentOutput' = <<>>
    /\ lineBuffer' = <<>>
    /\ lastCompleteState' = InitialSnapshot(now)
    /\ committed' = <<>>

\* cleanup(): unlink the endpoint and the PID marker if they exist (daemon.ts:262-277)
cleanup ==
    /\ socketFile' = "none"
    /\ pidFile' = "none"

InitDaemon ==
    /\ now = 0
    /\ lastCompleteState = InitialSnapshot(now)
    /\ currentOutput = <<>>
    /\ lineBuffer = <<>>
    /\ committed = <<>>
    /\ stream = <<>>
    /\ delivered = 0
    /\ cuts = {}
    /\ phase = "constructed"
    /\ svelteCheckProcess = 0
    /\ procs = <<>>
    /\ server = "null"
    /\ routeFileWatcher = "null"
    /\ gitHeadWatcher = "null"
    /\ bigChangesWatcher = "null"
    /\ syncDebounceTimer = 0
    /\ knownFiles = {}
    /\ env \in [git : BOOLEAN, bigChanges : BOOLEAN]
    /\ files \in SUBSET Paths
    /\ pidFile \in {"none", "stale"}
    /\ socketFile \in {"none", "stale"}
    /\ NetIdle
    /\ AuxIdle

\* start() up to the await of startServer() (daemon.ts:51-60, 238-260)
Start ==
    /\ phase = "constructed"
    /\ pidFile' = "self"
    /\ socketFile' = "none"
    /\ procs' = <<NewProcess>>
    /\ svelteCheckProcess' = 1
    /\ routeFileWatcher' = "open"
    /\ gitHeadWatcher' = IF env.git THEN "open" ELSE "null"
    /\ bigChangesWatcher' = IF env.bigChanges THEN "open" ELSE "null"
    /\ knownFiles' = IF env.bigChanges THEN files ELSE knownFiles
    /\ server' = "created"
    /\ phase' = "starting"
    /\ UNCHANGED <<parserVars, streamVars, now, auxVars, netVars, syncDebounceTimer, env, files>>

\* the listen callback resolves startServer(); start() registers the signal
\* handlers and returns (daemon.ts:255-258, 62-63)
Listening ==
    /\ phase = "starting"
    /\ socketFile = "none"
    /\ server' = "listening"
    /\ socketFile' = "self"
    /\ phase' = "running"
    /\ UNCHANGED <<parserVars, streamVars, now, auxVars, netVars, processVars, watcherVars, pidFile, env, files>>

\* stdout or stderr 'data' callback of process p (daemon.ts:181-187)
ProcessData(p, data) ==
    /\ Alive
    /\ p \in 1..Len(procs)
    /\ ~procs[p].exited
    /\ SumSent(procs) < MaxData
    /\ SetSelf(handleOutput(Self, data, now))
    /\ procs' = [procs EXCEPT ![p].sent = @ + 1]
    /\ UNCHANGED <<streamVars, now, auxVars, netVars, svelteCheckProcess, watcherVars, lifeVars, files>>

\* an 'exit' callback that starts the checker again
ProcessExitRespawns(p) ==
    /\ Alive
    /\ p \in 1..Len(procs)
    /\ ~procs[p].exited
    /\ Len(procs) < MaxProcs
    /\ procs' = Append([procs EXCEPT ![p].exited = TRUE], NewProcess)
    /\ svelteCheckProcess' = Len(procs) + 1
    /\ UNCHANGED <<parserVars, streamVars, now, auxVars, netVars, watcherVars, lifeVars, files>>

\* 'exit' callback of process p (daemon.ts:189-191)
ProcessExit(p) ==
    /\ Alive
    /\ p \in 1..Len(procs)
    /\ ~procs[p].exited
    /\ procs' = [procs EXCEPT ![p].exited = TRUE]
    /\ svelteCheckProcess' = 0
    /\ UNCHANGED <<parserVars, streamVars, now, auxVars, netVars, watcherVars, lifeVars, files>>

\* callback of the git HEAD watcher (daemon.ts:127-130)
GitHeadChanged ==
    /\ Alive
    /\ gitHeadWatcher = "open"
    /\ restartSvelteCheck
    /\ UNCHANGED <<streamVars, now, auxVars, netVars, watcherVars, lifeVars, files>>

\* a callback of the big-changes watcher that restarts on every rename event
\* of a missing path, known or not
BigChangesEventRestartsUnknown(eventType, filename) ==
    /\ Alive
    /\ bigChangesWatcher = "open"
    /\ IF filename = NoName \/ eventType # "rename"
       THEN UNCHANGED <<parserVars, processVars, knownFiles>>
       ELSE IF filename \in files
       THEN /\ knownFiles' = knownFiles \cup {filename}
            /\ UNCHANGED <<parserVars, processVars>>
       ELSE /\ knownFiles' = knownFiles \ {filename}
            /\ restartSvelteCheck
    /\ UNCHANGED <<streamVars, now, auxVars, netVars, routeFileWatcher, gitHeadWatcher, bigChangesWatcher,
                   syncDebounceTimer, lifeVars, files>>

\* callback of the big-changes watcher (daemon.ts:80-94)
BigChangesEvent(eventType, filename) ==
    /\ Alive
    /\ bigChangesWatcher = "open"
    /\ IF filename = NoName \/ eventType # "rename"
       THEN UNCHANGED <<parserVars, processVars, knownFiles>>
       ELSE IF filename \in files
       THEN /\ knownFiles' = knownFiles \cup {filename}
            /\ UNCHANGED <<parserVars, processVars>>
       ELSE IF filename \in knownFiles
       THEN /\ knownFiles' = knownFiles \ {filename}
            /\ restartSvelteCheck
       ELSE UNCHANGED <<parserVars, processVars, knownFiles>>
    /\ UNCHANGED <<streamVars, now, auxVars, netVars, routeFileWatcher, gitHeadWatcher, bigChangesWatcher,
                   syncDebounceTimer, lifeVars, files>>

\* a file of the watched directory is created or deleted
FileCreated(f) ==
    /\ env.bigChanges
    /\ f \in Paths \ files
    /\ files' = files \cup {f}
    /\ UNCHANGED <<parserVars, streamVars, now, auxVars, netVars, processVars, watcherVars, lifeVars>>

FileDeleted(f) ==
    /\ env.bigChanges
    /\ f \in files
    /\ files' = files \ {f}
    /\ UNCHANGED <<parserVars, streamVars, now, auxVars, netVars, processVars, watcherVars, lifeVars>>

\* '/', '+', '.ts': the characters of /\/\+[^/]+\.ts$/
TsSuffix == <<".", "t", "s">>

\* /\/\+[^/]+\.ts$/.test(filename)
isRouteFile(filename) ==
    \E i \in 1..(Len(filename) - 5) :
        /\ filename[i] = "/"
        /\ filename[i + 1] = "+"
        /\ \A j \in (i + 2)..(Len(filename) - 3) : filename[j] # "/"
        /\ IsPrefixAt(filename, TsSuffix, Len(filename) - 2)

\* fs.watch reports an event without a file name
NoFilename == <<>>

\* the file names of the workspace the route-file watcher reports: a route file
\* in a directory, one at the top of the workspace, and another source file
WorkspaceNames ==
    {<<"r", "/", "+", "p", ".", "t", "s">>,
     <<"+", "p", ".", "t", "s">>,
     <<"r", "/", "p", ".", "t", "s">>,
     NoFilename}

\* clearTimeout(handle): a pending timer is cancelled, any other handle is ignored
clearTimeout(ts, handle) ==
    IF handle # 0 /\ ts[handle].state = "pending"
    THEN [ts EXCEPT ![handle].state = "cleared"]
    ELSE ts

\* a callback of the route-file watcher that sets a timer and leaves the one
\* of the event before pending
RouteFileEventKeepsTimer(filename) ==
    /\ Alive
    /\ routeFileWatcher = "open"
    /\ Len(timers) < MaxTimers
    /\ IF filename # NoFilename /\ isRouteFile(filename)
       THEN /\ timers' = Append(timers, [state |-> "pending", due |-> now + DebounceMs])
            /\ syncDebounceTimer' = Len(timers) + 1
       ELSE UNCHANGED <<timers, syncDebounceTimer>>
    /\ UNCHANGED <<parserVars, streamVars, now, netVars, processVars, routeFileWatcher, gitHeadWatcher,
                   bigChangesWatcher, knownFiles, lifeVars, files, inflight, syncProcess, shutdownPc,
                   otherPhase, check>>

\* callback of the route-file watcher (daemon.ts:154-166)
RouteFileEvent(filename) ==
    /\ Alive
    /\ routeFileWatcher = "open"
    /\ Len(timers) < MaxTimers
    /\ IF filename # NoFilename /\ isRouteFile(filename)
       THEN /\ timers' = Append(clearTimeout(timers, syncDebounceTimer),
                               [state |-> "pending", due |-> now + DebounceMs])
            /\ syncDebounceTimer' = Len(timers) + 1
       ELSE UNCHANGED <<timers, syncDebounceTimer>>
    /\ UNCHANGED <<parserVars, streamVars, now, netVars, processVars, routeFileWatcher, gitHeadWatcher,
                   bigChangesWatcher, knownFiles, lifeVars, files, inflight, syncProcess, shutdownPc,
                   otherPhase, check>>

\* the debounce timer t is due and its callback calls spawnSync('svelte-kit', ['sync']),
\* which does not return before the sync process has ended (daemon.ts:159-164)
SyncTimerFires(t) ==
    /\ Alive
    /\ t \in 1..Len(timers)
    /\ timers[t].state = "pending"
    /\ timers[t].due <= now
    /\ timers' = [timers EXCEPT ![t].state = "fired"]
    /\ syncProcess' = [running |-> TRUE, runs |-> syncProcess.runs + 1]
    /\ UNCHANGED <<parserVars, streamVars, now, netVars, daemonVars, inflight, shutdownPc, otherPhase, check>>

\* the sync process ends and spawnSync returns
SyncExit ==
    /\ syncProcess.running
    /\ syncProcess' = [syncProcess EXCEPT !.running = FALSE]
    /\ UNCHANGED <<parserVars, streamVars, now, netVars, daemonVars, inflight, timers, shutdownPc,
                   otherPhase, check>>

\* shutdown() on SIGINT or SIGTERM, once start() has registered it (daemon.ts:279-300)
Shutdown ==
    /\ phase = "running"
    /\ ~syncProcess.running
    /\ timers' = clearTimeout(timers, syncDebounceTimer)
    /\ routeFileWatcher' = IF routeFileWatcher = "null" THEN "null" ELSE "closed"
    /\ gitHeadWatcher' = IF gitHeadWatcher = "null" THEN "null" ELSE "closed"
    /\ bigChangesWatcher' = IF bigChangesWatcher = "null" THEN "null" ELSE "closed"
    /\ procs' = IF svelteCheckProcess # 0
                THEN [procs EXCEPT ![svelteCheckProcess].killed = TRUE]
                ELSE procs
    /\ server' = IF server = "null" THEN "null" ELSE "closed"
    /\ cleanup
    /\ phase' = "exited"
    /\ UNCHANGED <<parserVars, streamVars, now, netVars, svelteCheckProcess, syncDebounceTimer, knownFiles,
                   env, files, inflight, syncProcess, shutdownPc, otherPhase, check>>

NextDaemon ==
    \/ Start
    \/ Listening
    \/ \E p \in 1..MaxProcs : \E data \in Chunks(p) : ProcessData(p, data)
    \/ \E p \in 1..MaxProcs : ProcessExit(p)
    \/ GitHeadChanged
    \/ \E eventType \in {"rename", "change"} : \E filename \in Paths \cup {NoName} :
          BigChangesEvent(eventType, filename)
    \/ \E f \in Paths : FileCreated(f)
    \/ \E f \in Paths : FileDeleted(f)
    \/ Shutdown

SpecDaemon == InitDaemon /\ [][NextDaemon]_vars

(***************************************************************************)
(* Claims about the supervisor, checked under SpecDaemon.                  *)
(***************************************************************************)
\* the summary line of process p as the snapshot holds it
SummaryOf(p) == trimEnd(SummaryLine(p))

\* C2: while the daemon runs, a complete snapshot holds the summary line of the
\* process the latest start or restart has spawned, and no snapshot holds text
\* of a process that a restart has killed.
C2_NoOutputOfKilledProcess ==
    Alive =>
        /\ lastCompleteState.isComplete =>
               includes(lastCompleteState.output, SummaryOf(Len(procs)))
        /\ \A p \in 1..Len(procs) :
               procs[p].killed => ~includes(lastCompleteState.output, <<Tag(p)>>)

\* C3: when restartSvelteCheck() returns, the snapshot is the empty in-progress
\* one, both buffers are empty, the process of the previous handle (if any) has
\* been sent a kill, and the handle is a new process that runs.
C3_RestartResets ==
    [][(Len(procs) >= 1 /\ Len(procs') = Len(procs) + 1) =>
          /\ Shown(lastCompleteState') = Shown(InitialSnapshot(0))
          /\ currentOutput' = <<>>
          /\ lineBuffer' = <<>>
          /\ svelteCheckProcess # 0 => procs'[svelteCheckProcess].killed
          /\ svelteCheckProcess' = Len(procs')
          /\ procs'[svelteCheckProcess'] = NewProcess]_vars

\* C3 witness: outside a repository, so on a deletion the big-changes watcher
\* saw, a restart has killed a process that delivered output and has spawned
\* the next one; the snapshot and the buffers are empty.
C3_Witness ==
    /\ ~env.git
    /\ Len(procs) = 2
    /\ procs[1].killed /\ procs[1].sent = MaxData
    /\ procs[2] = NewProcess
    /\ svelteCheckProcess = 2
    /\ Shown(lastCompleteState) = Shown(InitialSnapshot(0))
    /\ currentOutput = <<>>
    /\ lineBuffer = <<>>

\* the checker processes that are alive and have not been sent a kill
Supervised == {p \in 1..Len(procs) : ~procs[p].exited /\ ~procs[p].killed}

\* C6: at most one checker process is alive without having been sent a kill,
\* and the handle of the supervisor refers to it.
C6_OneSupervisedProcess ==
    /\ Cardinality(Supervised) <= 1
    /\ \A p \in Supervised : svelteCheckProcess = p

\* C13: when a checker process that no restart has killed exits, the handle is
\* cleared, no process is started and the snapshot is left as it is.
C13_ExitClearsHandleOnly ==
    [][\A p \in 1..Len(procs) :
          ~procs[p].exited /\ ~procs[p].killed /\ procs'[p].exited
          => /\ svelteCheckProcess' = 0
             /\ procs' = [procs EXCEPT ![p].exited = TRUE]
             /\ lastCompleteState' = lastCompleteState
             /\ currentOutput' = currentOutput
             /\ lineBuffer' = lineBuffer]_vars

\* C13 witness: the only checker process has exited, unkilled, after a complete
\* cycle with errors; the handle is clear and the snapshot is still complete.
C13_Witness ==
    /\ phase = "running"
    /\ Len(procs) = 1
    /\ procs[1].exited /\ ~procs[1].killed
    /\ svelteCheckProcess = 0
    /\ lastCompleteState.isComplete
    /\ lastCompleteState.hasErrors

\* C19: what one event of the big-changes watcher does: a rename event of a
\* path that exists adds the path to the known files and restarts nothing; of
\* a missing known path, removes it and restarts the checker; of a missing
\* unknown path, changes nothing; any other event changes nothing.
C19_BigChangesPerEvent ==
    [][\A eventType \in {"rename", "change"} : \A filename \in Paths \cup {NoName} :
          BigChangesEvent(eventType, filename) =>
              LET exists == filename \in files
                  known == filename \in knownFiles
                  named == filename # NoName
                  nothing == UNCHANGED <<knownFiles, processVars, parserVars>>
              IN  /\ eventType = "rename" /\ named /\ exists
                         => /\ filename \in knownFiles'
                            /\ knownFiles' \ {filename} = knownFiles \ {filename}
                            /\ UNCHANGED <<processVars, parserVars>>
                  /\ eventType = "rename" /\ named /\ ~exists /\ known
                         => /\ knownFiles' = knownFiles \ {filename}
                            /\ Len(procs') = Len(procs) + 1
                            /\ svelteCheckProcess' = Len(procs')
                            /\ procs'[svelteCheckProcess'] = NewProcess
                            /\ svelteCheckProcess # 0 => procs'[svelteCheckProcess].killed
                            /\ ~lastCompleteState'.isComplete
                  /\ eventType = "rename" /\ named /\ ~exists /\ ~known => nothing
                  /\ eventType # "rename" \/ ~named => nothing]_vars

\* C19 witness: outside a repository, the deletion of a known file has
\* restarted the checker and the file is no longer known.
C19_Witness ==
    /\ phase = "running"
    /\ env.bigChanges /\ ~env.git
    /\ "a.ts" \notin files /\ "a.ts" \notin knownFiles
    /\ Len(procs) = 2
    /\ procs[1].killed
    /\ svelteCheckProcess = 2

(***************************************************************************)
(* JSON.stringify and JSON.parse, on character sequences.  A JSON value is *)
(* a record [type, value]; an object holds its members in source order.    *)
(* The grammar covers what a snapshot serialises to: objects, strings with *)
(* the escapes of the model's alphabet, non-negative integers, true, false *)
(* and null.                                                               *)
(***************************************************************************)
JsonBoolean(b) == [type |-> "boolean", value |-> b]
JsonNumber(n) == [type |-> "number", value |-> n]
JsonString(str) == [type |-> "string", value |-> str]
JsonObject(members) == [type |-> "object", value |-> members]

TrueText == <<"t","r","u","e">>
FalseText == <<"f","a","l","s","e">>
NullText == <<"n","u","l","l">>
OutputKey == <<"o","u","t","p","u","t">>
HasErrorsKey == <<"h","a","s","E","r","r","o","r","s">>
HasWarningsKey == <<"h","a","s","W","a","r","n","i","n","g","s">>
IsCompleteKey == <<"i","s","C","o","m","p","l","e","t","e">>
LastUpdateKey == <<"l","a","s","t","U","p","d","a","t","e">>

\* the snapshot as the JSON value JSON.parse gives back for it
FromState(state) ==
    JsonObject(<<[key |-> OutputKey, value |-> JsonString(state.output)],
                 [key |-> HasErrorsKey, value |-> JsonBoolean(state.hasErrors)],
                 [key |-> HasWarningsKey, value |-> JsonBoolean(state.hasWarnings)],
                 [key |-> IsCompleteKey, value |-> JsonBoolean(state.isComplete)],
                 [key |-> LastUpdateKey, value |-> JsonNumber(state.lastUpdate)]>>)

\* the escape sequence JSON.stringify writes for a character of a string
EscapeChar(c) ==
    CASE c = "\"" -> <<"\\", "\"">>
      [] c = "\\" -> <<"\\", "\\">>
      [] c = "\n" -> <<"\\", "n">>
      [] c = "\t" -> <<"\\", "t">>
      [] c = "\r" -> <<"\\", "r">>
      [] OTHER -> <<c>>

RECURSIVE Escape(_, _, _)
Escape(str, lo, hi) ==
    IF lo > hi THEN <<>>
    ELSE IF lo = hi THEN EscapeChar(str[lo])
    ELSE LET mid == (lo + hi) \div 2
         IN  Escape(str, lo, mid) \o Escape(str, mid + 1, hi)

QuoteString(str) == <<"\"">> \o Escape(str, 1, Len(str)) \o <<"\"">>

DigitChar(d) == CHOOSE c \in Digits : DigitVal(c) = d

RECURSIVE NumberText(_)
NumberText(n) ==
    IF n < 10 THEN <<DigitChar(n)>> ELSE NumberText(n \div 10) \o <<DigitChar(n % 10)>>

BooleanText(b) == IF b THEN TrueText ELSE FalseText

\* JSON.stringify(state) of a DaemonState (daemon.ts:244)
stringify(state) ==
    <<"{">> \o QuoteString(OutputKey) \o <<":">> \o QuoteString(state.output)
      \o <<",">> \o QuoteString(HasErrorsKey) \o <<":">> \o BooleanText(state.hasErrors)
      \o <<",">> \o QuoteString(HasWarningsKey) \o <<":">> \o BooleanText(state.hasWarnings)
      \o <<",">> \o QuoteString(IsCompleteKey) \o <<":">> \o BooleanText(state.isComplete)
      \o <<",">> \o QuoteString(LastUpdateKey) \o <<":">> \o NumberText(state.lastUpdate)
      \o <<"}">>

\* a parse that failed, and one that produced value and stopped before position next
ParseFail == [ok |-> FALSE, value |-> JsonNull, next |-> 0]
ParseOk(value, next) == [ok |-> TRUE, value |-> value, next |-> next]

\* the first position from i on that holds no JSON whitespace
SkipWhitespace(text, i) == i + RunLen(text, i, Whitespace)

\* the character an escape sequence \e stands for, <<>> if there is no such escape
Unescape(e) ==
    CASE e = "\"" -> <<"\"">>
      [] e = "\\" -> <<"\\">>
      [] e = "/" -> <<"/">>
      [] e = "n" -> <<"\n">>
      [] e = "t" -> <<"\t">>
      [] e = "r" -> <<"\r">>
      [] OTHER -> <<>>

\* the number of backslashes that stand directly before position j, from position i on
BackslashesBefore(text, i, j) ==
    CHOOSE r \in 0..(j - i) :
        /\ \A m \in 1..r : text[j - m] = "\\"
        /\ r = j - i \/ text[j - r - 1] # "\\"

\* inside a string literal that opens before position i: the character at j is escaped by a backslash
IsEscaped(text, i, j) == BackslashesBefore(text, i, j) % 2 = 1

\* what the character at position j of a string literal stands for
StringChar(text, i, j) ==
    IF IsEscaped(text, i, j) THEN Unescape(text[j])
    ELSE IF text[j] = "\\" THEN <<>>
    ELSE <<text[j]>>

RECURSIVE StringChars(_, _, _, _)
StringChars(text, i, lo, hi) ==
    IF lo > hi THEN <<>>
    ELSE IF lo = hi THEN StringChar(text, i, lo)
    ELSE LET mid == (lo + hi) \div 2
         IN  StringChars(text, i, lo, mid) \o StringChars(text, i, mid + 1, hi)

\* a string literal at position i: up to the first quote no backslash escapes
parseString(text, i) ==
    IF i > Len(text) \/ text[i] # "\"" THEN ParseFail
    ELSE LET quotes == {j \in (i + 1)..Len(text) : text[j] = "\"" /\ ~IsEscaped(text, i + 1, j)}
         IN  IF quotes = {} THEN ParseFail
             ELSE LET close == Min(quotes)
                      body == (i + 1)..(close - 1)
                  IN  IF \E j \in body :
                             \/ IsEscaped(text, i + 1, j) /\ Unescape(text[j]) = <<>>
                             \/ ~IsEscaped(text, i + 1, j) /\ text[j] \in {"\n", "\t", "\r"}
                      THEN ParseFail
                      ELSE ParseOk(JsonString(StringChars(text, i + 1, i + 1, close - 1)), close + 1)

\* a non-negative integer without a leading zero
parseNumber(text, i) ==
    LET n == RunLen(text, i, Digits)
    IN  IF n = 0 \/ (n > 1 /\ text[i] = "0") THEN ParseFail
        ELSE ParseOk(JsonNumber(parseInt(SubSeq(text, i, i + n - 1))), i + n)

RECURSIVE parseValue(_, _)
RECURSIVE parseMembers(_, _, _)

\* the members of an object from position i, after the members acc
parseMembers(text, i, acc) ==
    LET key == parseString(text, SkipWhitespace(text, i))
        colon == SkipWhitespace(text, key.next)
    IN  IF ~key.ok \/ colon > Len(text) \/ text[colon] # ":" THEN ParseFail
        ELSE LET val == parseValue(text, colon + 1)
                 after == SkipWhitespace(text, val.next)
                 members == Append(acc, [key |-> key.value.value, value |-> val.value])
             IN  IF ~val.ok \/ after > Len(text) THEN ParseFail
                 ELSE IF text[after] = "}" THEN ParseOk(JsonObject(members), after + 1)
                 ELSE IF text[after] = "," THEN parseMembers(text, after + 1, members)
                 ELSE ParseFail

parseObject(text, i) ==
    LET first == SkipWhitespace(text, i + 1)
    IN  IF first <= Len(text) /\ text[first] = "}"
        THEN ParseOk(JsonObject(<<>>), first + 1)
        ELSE parseMembers(text, i + 1, <<>>)

parseValue(text, i) ==
    LET at == SkipWhitespace(text, i)
    IN  IF at > Len(text) THEN ParseFail
        ELSE IF text[at] = "{" THEN parseObject(text, at)
        ELSE IF text[at] = "\"" THEN parseString(text, at)
        ELSE IF text[at] \in Digits THEN parseNumber(text, at)
        ELSE IF IsPrefixAt(text, TrueText, at) THEN ParseOk(JsonBoolean(TRUE), at + Len(TrueText))
        ELSE IF IsPrefixAt(text, FalseText, at) THEN ParseOk(JsonBoolean(FALSE), at + Len(FalseText))
        ELSE IF IsPrefixAt(text, NullText, at) THEN ParseOk(JsonNull, at + Len(NullText))
        ELSE ParseFail

\* JSON.parse(text): [ok |-> FALSE] where it throws (client.ts:26)
parse(text) ==
    LET r == parseValue(text, 1)
    IN  IF r.ok /\ SkipWhitespace(text, r.next) > Len(text) THEN r ELSE ParseFail

(***************************************************************************)
(* The client: one call of getStatusFromDaemon (client.ts:7-41) against a  *)
(* peer that sends the successive chunks of `wire` and may close or fail   *)
(* at any moment.                                                          *)
(***************************************************************************)
\* resolve() as it would be if a settled promise could be settled again
resolveOverwrites(p, value) ==
    [state |-> "resolved", value |-> value]

\* resolve(value) of the promise: the first call settles it, later calls do nothing
resolve(p, value) ==
    IF p.state = "pending" THEN [state |-> "resolved", value |-> value] ELSE p

\* checker output a daemon has parsed when it is queried: none yet, or one check cycle
ServedStreams == {<<>>, <<"summary31">>, <<"frame", "summary00">>}

\* the parser after the checker has written the blocks bs
AfterStream(bs) ==
    IF bs = <<>> THEN InitialParser(0) ELSE handleOutput(InitialParser(0), TextOf(bs), 0)

\* the snapshots such a daemon holds
ServedSnapshots == {AfterStream(bs).lastCompleteState : bs \in ServedStreams}

\* the texts the peer may send: serialised snapshots, the JSON null, a text that is no JSON, nothing
Payloads ==
    {stringify(state) : state \in ServedSnapshots} \cup {NullText, <<"o", "k">>, <<>>}

\* no daemon has run in the workspace, or one has died and left its artifacts
DaemonAbsent ==
    /\ phase = "constructed"
    /\ svelteCheckProcess = 0
    /\ procs = <<>>
    /\ server = "null"
    /\ routeFileWatcher = "null"
    /\ gitHeadWatcher = "null"
    /\ bigChangesWatcher = "null"
    /\ syncDebounceTimer = 0
    /\ knownFiles = {}
    /\ env = [git |-> FALSE, bigChanges |-> FALSE]
    /\ files = {}
    /\ pidFile \in {"none", "stale"}
    /\ socketFile \in {"none", "stale"}

InitClient ==
    /\ now = 0
    /\ lastCompleteState = InitialSnapshot(now)
    /\ currentOutput = <<>>
    /\ lineBuffer = <<>>
    /\ committed = <<>>
    /\ stream = <<>>
    /\ delivered = 0
    /\ cuts = {}
    /\ DaemonStarted \/ DaemonAbsent
    /\ promise = [state |-> "idle", value |-> JsonNull]
    /\ socket = "none"
    /\ clientData = <<>>
    /\ timer = "none"
    /\ wire \in Payloads
    /\ conns = [c \in Conns |-> NoConnection]
    /\ AuxIdle

\* getStatusFromDaemon up to its return of the promise (client.ts:7-41)
GetStatusFromDaemon ==
    /\ promise.state = "idle"
    /\ IF socketFile = "none"
       THEN /\ promise' = [state |-> "resolved", value |-> JsonNull]
            /\ UNCHANGED <<socket, timer>>
       ELSE /\ promise' = [state |-> "pending", value |-> JsonNull]
            /\ socket' = "connecting"
            /\ timer' = "pending"
    /\ UNCHANGED <<parserVars, streamVars, now, auxVars, daemonVars, clientData, wire, conns>>

\* the connect callback: the request is written (client.ts:15-17)
SocketConnect ==
    /\ socket = "connecting"
    /\ socketFile = "self"
    /\ socket' = "connected"
    /\ UNCHANGED <<parserVars, streamVars, now, auxVars, daemonVars, promise, clientData, timer, wire, conns>>

\* the 'data' callback with the next k characters the peer sends (client.ts:20-22)
SocketData(k) ==
    /\ socket = "connected"
    /\ k \in 1..(Len(wire) - Len(clientData))
    /\ clientData' = clientData \o SubSeq(wire, Len(clientData) + 1, Len(clientData) + k)
    /\ UNCHANGED <<parserVars, streamVars, now, auxVars, daemonVars, promise, socket, timer, wire, conns>>

\* the 'end' callback: the peer has closed (client.ts:24-30)
SocketEnd ==
    /\ socket = "connected"
    /\ socket' = "ended"
    /\ LET parsed == parse(clientData)
       IN  promise' = resolve(promise, IF parsed.ok THEN parsed.value ELSE JsonNull)
    /\ UNCHANGED <<parserVars, streamVars, now, auxVars, daemonVars, clientData, timer, wire, conns>>

\* the 'error' callback: the connection is refused or breaks (client.ts:32-34)
SocketError ==
    /\ socket \in {"connecting", "connected"}
    /\ socket' = "errored"
    /\ promise' = resolve(promise, JsonNull)
    /\ UNCHANGED <<parserVars, streamVars, now, auxVars, daemonVars, clientData, timer, wire, conns>>

\* the timer callback, 5000 ms after the call (client.ts:36-39)
Timeout ==
    /\ timer = "pending"
    /\ timer' = "fired"
    /\ socket' = IF socket \in {"connecting", "connected"} THEN "destroyed" ELSE socket
    /\ promise' = resolve(promise, JsonNull)
    /\ UNCHANGED <<parserVars, streamVars, now, auxVars, daemonVars, clientData, wire, conns>>

NextClient ==
    \/ GetStatusFromDaemon
    \/ SocketConnect
    \/ \E k \in 1..Len(wire) : SocketData(k)
    \/ SocketEnd
    \/ SocketError
    \/ Timeout

\* the call is made, and the event loop runs a timer that is due
SpecClient ==
    InitClient /\ [][NextClient]_vars /\ WF_vars(GetStatusFromDaemon) /\ WF_vars(Timeout)

\* C7: once the promise has resolved, the connection is not open and the timer is not pending.
C7_NothingPendingAfterResolve ==
    promise.state = "resolved" =>
        /\ socket \notin {"connecting", "connected"}
        /\ timer # "pending"

\* what the call is to resolve to when the peer closes after the text received
Expected(received) ==
    IF \E state \in ServedSnapshots : received = stringify(state)
    THEN FromState(CHOOSE state \in ServedSnapshots : received = stringify(state))
    ELSE JsonNull

\* C8: the call always resolves; without an endpoint artifact it resolves to
\* null and no connection is attempted; otherwise the promise resolves to the
\* snapshot received when the peer closes after a complete payload, and to
\* null on an unparsable payload, on an error and on the timeout; once
\* resolved, the result never changes.
C8_ResolvesToFirstOutcome ==
    /\ [][promise.state = "idle" /\ promise'.state # "idle" =>
             IF socketFile = "none"
             THEN promise' = [state |-> "resolved", value |-> JsonNull] /\ socket' = "none" /\ timer' = "none"
             ELSE promise'.state = "pending" /\ socket' = "connecting"]_vars
    /\ [][promise.state = "pending" /\ promise'.state = "resolved" =>
             promise'.value = IF socket' = "ended" THEN Expected(clientData) ELSE JsonNull]_vars
    /\ [][promise.state = "pending" /\ (socket' \in {"ended", "errored"} \/ timer' = "fired") =>
             promise'.state = "resolved"]_vars
    /\ [][promise.state = "resolved" => promise' = promise]_vars
    /\ <>(promise.state = "resolved")

\* C8 witness: the peer closed after a complete snapshot, the call resolved to
\* that snapshot, and the timer has fired since without changing the result.
C8_Witness ==
    /\ promise.state = "resolved"
    /\ \E state \in ServedSnapshots :
           /\ state.isComplete
           /\ clientData = stringify(state)
           /\ promise.value = FromState(state)
    /\ socket = "ended"
    /\ timer = "fired"

(***************************************************************************)
(* The socket server: the 'data' handler of an accepted connection         *)
(* (daemon.ts:240-248), for a daemon that runs and holds a snapshot.       *)
(***************************************************************************)
GetStatusToken ==
    <<"G","E","T","_","S","T","A","T","U","S">>

\* the payloads of the 'data' events the model draws
Requests ==
    {GetStatusToken,
     GetStatusToken \o <<"\n">>,
     <<" ">> \o GetStatusToken \o <<" ">>,
     GetStatusToken \o GetStatusToken,
     <<"S","T","A","T","U","S">>}

\* the calls the handler makes on the socket
WriteCall(payload) == [op |-> "write", payload |-> payload]
EndCall == [op |-> "end", payload |-> <<>>]

\* the 'data' handler as it would be if it compared the payload without trimming it
onDataUntrimmed(conn, data, state) ==
    LET received == [conn EXCEPT !.requests = Append(@, data)]
    IN  IF data = GetStatusToken
        THEN [received EXCEPT !.calls = @ \o <<WriteCall(stringify(state)), EndCall>>,
                              !.state = "ended"]
        ELSE received

\* the 'data' handler of a connection, state being what getState() returns (daemon.ts:241-247)
onData(conn, data, state) ==
    LET request == trim(data)
        received == [conn EXCEPT !.requests = Append(@, data)]
    IN  IF request = GetStatusToken
        THEN [received EXCEPT !.calls = @ \o <<WriteCall(stringify(state)), EndCall>>,
                              !.state = "ended"]
        ELSE received

InitServer ==
    /\ now = 0
    /\ stream \in ServedStreams
    /\ delivered = Len(TextOf(stream))
    /\ cuts = {}
    /\ lastCompleteState = AfterStream(stream).lastCompleteState
    /\ currentOutput = AfterStream(stream).currentOutput
    /\ lineBuffer = AfterStream(stream).lineBuffer
    /\ committed = AfterStream(stream).committed
    /\ DaemonStarted
    /\ NetIdle
    /\ AuxIdle

\* the connection callback of createServer (daemon.ts:240)
Accept(c) ==
    /\ Alive
    /\ server = "listening"
    /\ conns[c].state = "none"
    /\ conns' = [conns EXCEPT ![c].state = "open"]
    /\ UNCHANGED <<parserVars, streamVars, now, auxVars, daemonVars, clientVars>>

\* a 'data' event on connection c; the readable side stays open after socket.end()
SocketRequest(c, data) ==
    /\ Alive
    /\ conns[c].state \in {"open", "ended"}
    /\ Len(conns[c].requests) < MaxRequests
    /\ conns' = [conns EXCEPT ![c] = onData(@, data, lastCompleteState)]
    /\ inflight' = inflight \ {c}
    /\ UNCHANGED <<parserVars, streamVars, now, daemonVars, clientVars, syncProcess, timers, shutdownPc,
                   otherPhase, check>>

\* the peer closes connection c
PeerClose(c) ==
    /\ conns[c].state \in {"open", "ended"}
    /\ conns' = [conns EXCEPT ![c].state = "closed"]
    /\ UNCHANGED <<parserVars, streamVars, now, auxVars, daemonVars, clientVars>>

NextServer ==
    \/ \E c \in Conns : Accept(c)
    \/ \E c \in Conns, data \in Requests : SocketRequest(c, data)
    \/ \E c \in Conns : PeerClose(c)

SpecServer == InitServer /\ [][NextServer]_vars

\* connection c receives a 'data' event in the step
DataEvent(c) == Len(conns'[c].requests) = Len(conns[c].requests) + 1

\* the payload of that event
Payload(c) == conns'[c].requests[Len(conns'[c].requests)]

\* the handler answers in the step: it writes the serialised snapshot and ends the connection
Responds(c) ==
    /\ conns'[c].calls = conns[c].calls \o <<WriteCall(stringify(lastCompleteState)), EndCall>>
    /\ conns'[c].state = "ended"

\* the handler does nothing to the connection in the step
Ignores(c) ==
    /\ conns'[c].calls = conns[c].calls
    /\ conns'[c].state = conns[c].state

\* C9 as stated: on a 'data' event the server writes a response and closes the
\* connection if and only if the payload is exactly GET_STATUS, and otherwise
\* does nothing to the connection.
C9_RespondsIffExactToken ==
    [][\A c \in Conns : DataEvent(c) =>
           IF Payload(c) = GetStatusToken THEN Responds(c) ELSE Ignores(c)]_vars

\* C9 amended: on a 'data' event the server writes a response and closes the
\* connection if and only if the payload with the whitespace around it trimmed
\* is GET_STATUS, and otherwise does nothing to the connection.
C9_RespondsIffTrimmedToken ==
    [][\A c \in Conns : DataEvent(c) =>
           IF trim(Payload(c)) = GetStatusToken THEN Responds(c) ELSE Ignores(c)]_vars

\* C9 witness: one connection sent the token with a trailing newline and was
\* answered and ended, another sent a different word and is open and unanswered.
C9_Witness ==
    \E c, d \in Conns :
        /\ conns[c].requests = <<GetStatusToken \o <<"\n">>>>
        /\ conns[c].calls = <<WriteCall(stringify(lastCompleteState)), EndCall>>
        /\ conns[c].state = "ended"
        /\ lastCompleteState.isComplete
        /\ conns[d].requests = <<<<"S","T","A","T","U","S">>>>
        /\ conns[d].calls = <<>>
        /\ conns[d].state = "open"

\* C10: on every connection the server writes at most one response and makes no
\* write call after its end call.
C10_OneResponsePerConnection ==
    \A c \in Conns :
        LET calls == conns[c].calls
        IN  /\ Cardinality({i \in 1..Len(calls) : calls[i].op = "write"}) <= 1
            /\ \A i, j \in 1..Len(calls) :
                   calls[i].op = "end" /\ calls[j].op = "write" => j < i

(***************************************************************************)
(* The daemon serving queries while its callbacks interleave: checker      *)
(* output and exit, restarts, the debounce timer with its sync process,    *)
(* connections and shutdown.                                               *)
(***************************************************************************)
\* a debounce timer that is due: the last route-file event is DebounceMs or more ago
DueTimer == [state |-> "pending", due |-> 0]

\* the daemon after start() in a repository, with its first checker process running
InitServe ==
    /\ now = 0
    /\ lastCompleteState = InitialSnapshot(now)
    /\ currentOutput = <<>>
    /\ lineBuffer = <<>>
    /\ committed = <<>>
    /\ stream = <<>>
    /\ delivered = 0
    /\ cuts = {}
    /\ phase = "running"
    /\ svelteCheckProcess = 1
    /\ procs = <<NewProcess>>
    /\ server = "listening"
    /\ routeFileWatcher = "open"
    /\ gitHeadWatcher = "open"
    /\ bigChangesWatcher = "null"
    /\ knownFiles = {}
    /\ env = [git |-> TRUE, bigChanges |-> FALSE]
    /\ files = {}
    /\ pidFile = "self"
    /\ socketFile = "self"
    /\ NetIdle
    /\ inflight = {}
    /\ syncProcess = [running |-> FALSE, runs |-> 0]
    /\ \/ timers = <<>> /\ syncDebounceTimer = 0
       \/ timers = <<DueTimer>> /\ syncDebounceTimer = 1
    /\ shutdownPc = 0
    /\ otherPhase = "none"
    /\ check = CheckIdle

\* the connections clients of this specification make
Clients == {1}

\* a client that has connected writes GET_STATUS (client.ts:15-17)
Send(c) ==
    /\ conns[c].state = "open"
    /\ conns[c].requests = <<>>
    /\ c \notin inflight
    /\ inflight' = inflight \cup {c}
    /\ UNCHANGED <<parserVars, streamVars, now, daemonVars, netVars, syncProcess, timers, shutdownPc,
                   otherPhase, check>>

\* the server reads the request of connection c
Receive(c) ==
    /\ c \in inflight
    /\ SocketRequest(c, GetStatusToken)

\* the client of connection c closes it, having got its answer or having sent nothing
Hangup(c) ==
    /\ c \notin inflight
    /\ PeerClose(c)

NextServe ==
    \/ \E p \in 1..MaxProcs : \E data \in Chunks(p) : ProcessData(p, data)
    \/ \E p \in 1..MaxProcs : ProcessExit(p)
    \/ GitHeadChanged
    \/ \E t \in 1..MaxTimers : SyncTimerFires(t)
    \/ SyncExit
    \/ \E c \in Clients : Accept(c)
    \/ \E c \in Clients : Send(c)
    \/ \E c \in Clients : Receive(c)
    \/ \E c \in Clients : Hangup(c)
    \/ Shutdown

SpecServe == InitServe /\ [][NextServe]_vars

(***************************************************************************)
(* Two daemon instances started on the same workspace: this one and        *)
(* another process running the same start() and shutdown().  The PID       *)
(* marker and the endpoint are paths both compute from the workspace, so   *)
(* pidFile and socketFile are shared; "self" and "other" say whose pid or  *)
(* whose bound socket the path holds.                                      *)
(***************************************************************************)
\* listen() on a path that exists: the server's 'error' listener rejects
\* startServer(), start() throws and main's catch calls process.exit(1)
\* (daemon.ts:250-253, bin 177-180); nothing is removed
ListenFails ==
    /\ phase = "starting"
    /\ socketFile # "none"
    /\ phase' = "failed"
    /\ UNCHANGED <<parserVars, streamVars, now, auxVars, netVars, processVars, watcherVars, server,
                   pidFile, socketFile, env, files>>

\* start() of the other instance up to its await (daemon.ts:51-60)
OtherStart ==
    /\ otherPhase = "none"
    /\ pidFile' = "other"
    /\ socketFile' = "none"
    /\ otherPhase' = "starting"
    /\ UNCHANGED <<parserVars, streamVars, now, netVars, processVars, watcherVars, phase, server, env,
                   files, inflight, syncProcess, timers, shutdownPc, check>>

\* listen() of the other instance: its callback, or its 'error' listener when
\* the path exists (daemon.ts:250-258)
OtherListen ==
    /\ otherPhase = "starting"
    /\ IF socketFile = "none"
       THEN socketFile' = "other" /\ otherPhase' = "running"
       ELSE socketFile' = socketFile /\ otherPhase' = "failed"
    /\ UNCHANGED <<parserVars, streamVars, now, netVars, processVars, watcherVars, phase, server, pidFile,
                   env, files, inflight, syncProcess, timers, shutdownPc, check>>

\* shutdown() of the other instance (daemon.ts:279-300)
OtherShutdown ==
    /\ otherPhase = "running"
    /\ cleanup
    /\ otherPhase' = "exited"
    /\ UNCHANGED <<parserVars, streamVars, now, netVars, processVars, watcherVars, phase, server, env,
                   files, inflight, syncProcess, timers, shutdownPc, check>>

NextInstances ==
    \/ Start
    \/ Listening
    \/ ListenFails
    \/ Shutdown
    \/ OtherStart
    \/ OtherListen
    \/ OtherShutdown

SpecInstances == InitDaemon /\ [][NextInstances]_vars

\* C14: an instance that has completed start() and not begun shutdown finds
\* the PID marker with its own pid and its endpoint in place, and a clean
\* shutdown of an instance leaves neither artifact.
C14_ArtifactsSignalTheRunningInstance ==
    [][/\ phase' = "running" => pidFile' = "self" /\ socketFile' = "self"
       /\ otherPhase' = "running" => pidFile' = "other" /\ socketFile' = "other"
       /\ phase = "running" /\ phase' = "exited" => pidFile' = "none" /\ socketFile' = "none"
       /\ otherPhase = "running" /\ otherPhase' = "exited"
              => pidFile' = "none" /\ socketFile' = "none"]_vars

\* the event loop runs a callback that is ready; nothing makes the sync process end
SpecServeFair == SpecServe /\ \A c \in Clients : WF_vars(Receive(c))

\* the payloads the server has written to connection c
Served(c) ==
    {conns[c].calls[i].payload : i \in {j \in 1..Len(conns[c].calls) : conns[c].calls[j].op = "write"}}

\* the JSON value is an object of the five fields of a snapshot
IsSnapshotValue(v) ==
    /\ v.type = "object"
    /\ Len(v.value) = 5
    /\ v.value[1].key = OutputKey /\ v.value[1].value.type = "string"
    /\ v.value[2].key = HasErrorsKey /\ v.value[2].value.type = "boolean"
    /\ v.value[3].key = HasWarningsKey /\ v.value[3].value.type = "boolean"
    /\ v.value[4].key = IsCompleteKey /\ v.value[4].value.type = "boolean"
    /\ v.value[5].key = LastUpdateKey /\ v.value[5].value.type = "number"

\* the snapshot such a value stands for
ToState(v) ==
    [output |-> v.value[1].value.value,
     hasErrors |-> v.value[2].value.value,
     hasWarnings |-> v.value[3].value.value,
     isComplete |-> v.value[4].value.value,
     lastUpdate |-> v.value[5].value.value]

\* output and flags of the snapshot come from one finalize: the output ends
\* with a summary line, and the flags say what its counts say
OneFinalize(snap) ==
    LET lines == split(snap.output)
        summary == summaryMatch(lines[Len(lines)])
    IN  /\ summary.matched
        /\ snap.hasErrors = (parseInt(summary.errors) > 0)
        /\ snap.hasWarnings = (parseInt(summary.warnings) > 0)

\* connection c is written to in the step
Written(c) == Len(conns'[c].calls) > Len(conns[c].calls)

\* the payload connection c is written in the step
NewPayload(c) == conns'[c].calls[Len(conns[c].calls) + 1].payload

\* C11: every callback that writes the store leaves a whole snapshot in it: if
\* it is complete, its output and flags come from one finalize (the store
\* starts incomplete); and what the server writes to
\* a client reads back as the snapshot the store holds when the callback starts.
C11_ServedSnapshotIsWhole ==
    [][/\ lastCompleteState' # lastCompleteState /\ lastCompleteState'.isComplete
              => OneFinalize(lastCompleteState')
       /\ \A c \in Conns : Written(c) =>
              \A r \in {parse(NewPayload(c))} :
                  /\ r.ok
                  /\ \A v \in {r.value} :
                         IsSnapshotValue(v) /\ ToState(v) = lastCompleteState]_vars

\* C11 witness: after a restart and a run of the sync process, a client has
\* been served a complete snapshot that reports errors.
C11_Witness ==
    /\ Len(procs) = 2
    /\ syncProcess.runs = 1
    /\ \E payload \in Served(1) :
           /\ parse(payload).ok
           /\ ToState(parse(payload).value).isComplete
           /\ ToState(parse(payload).value).hasErrors

\* C12: while the daemon runs, the request of every connection that has sent
\* GET_STATUS is answered.
C12_RequestIsAnswered ==
    \A c \in Clients :
        [](c \in inflight /\ phase = "running" =>
               <>(conns[c].calls # <<>> \/ phase # "running"))


(***************************************************************************)
(* The check command (bin/svelte-check-daemon.js, runCheck) run against    *)
(* the workspace of this daemon.  check.pc is where the command is;        *)
(* check.status the last answer of getStatusFromDaemon, JsonNull for null; *)
(* check.elapsed is Date.now() - startTime of the polling loop.            *)
(***************************************************************************)
maxWaitMs == 120000
pollIntervalMs == 500

FailedMessage == "Failed to get status from daemon"
TimeoutMessage == "Timeout waiting for svelte-check to complete"

\* a summary line with warnings and no errors
Summary02 ==
    SummaryFound \o <<"0">> \o SummaryError \o <<"s">> \o SummaryAnd \o <<"2">> \o SummaryWarning \o <<"s">> \o NL

\* what the checker of the daemon writes while a check command runs
CheckerChunks == {StartLine, Summary00, Summary02, Summary31}

\* isDaemonRunning(): the PID marker exists and names a live process
\* (client.ts:43-56)
isDaemonRunning == pidFile = "self" /\ phase \in {"starting", "running"}

\* what getStatusFromDaemon() can resolve to: null (endpoint missing, connection
\* error, unparsable response, timeout), or the snapshot of a daemon that
\* answers (client.ts:7-41)
StatusAnswers ==
    {JsonNull} \cup
    (IF phase = "running" /\ socketFile = "self" /\ server = "listening" /\ Alive
     THEN {lastCompleteState}
     ELSE {})

\* an exit code that counts warnings as failures
exitCodeCountsWarnings(status) == IF status.hasErrors \/ status.hasWarnings THEN 1 ELSE 0

\* process.exit(status.hasErrors ? 1 : 0) (bin 87)
exitCodeOf(status) == IF status.hasErrors THEN 1 ELSE 0

\* console.log(status.output); process.exit(...) (bin 86-87)
Report(status) ==
    [pc |-> "done", status |-> status, elapsed |-> check.elapsed,
     exitCode |-> exitCodeOf(status), message |-> "output"]

\* console.error(message); process.exit(1)
Fail(message) ==
    [pc |-> "done", status |-> check.status, elapsed |-> check.elapsed,
     exitCode |-> 1, message |-> message]

\* runCheck up to its first await: without a running daemon, the direct check
\* and its exit code (bin 36-60)
RunCheck(success) ==
    /\ check.pc = "idle"
    /\ check' = IF ~isDaemonRunning
                THEN [check EXCEPT !.pc = "done", !.exitCode = IF success THEN 0 ELSE 1,
                                   !.message = "direct"]
                ELSE [check EXCEPT !.pc = "query"]
    /\ UNCHANGED <<parserVars, streamVars, now, netVars, daemonVars, inflight, syncProcess, timers,
                   shutdownPc, otherPhase>>

\* the first getStatusFromDaemon() resolves to answer (bin 60-69, 86-87)
FirstStatus(answer) ==
    /\ check.pc = "query"
    /\ answer \in StatusAnswers
    /\ check' = IF answer = JsonNull THEN Fail(FailedMessage)
                ELSE IF answer.isComplete THEN Report(answer)
                ELSE [check EXCEPT !.pc = "poll", !.status = answer, !.elapsed = 0]
    /\ UNCHANGED <<parserVars, streamVars, now, netVars, daemonVars, inflight, syncProcess, timers,
                   shutdownPc, otherPhase>>

\* one turn of the polling loop: the test of the ceiling, the sleep, the query
\* that resolves to answer; and what follows the loop (bin 71-87)
Poll(answer) ==
    /\ check.pc = "poll"
    /\ answer \in StatusAnswers
    /\ check' = IF check.elapsed >= maxWaitMs THEN Fail(TimeoutMessage)
                ELSE IF answer = JsonNull
                THEN [Fail(FailedMessage) EXCEPT !.status = JsonNull,
                                                 !.elapsed = check.elapsed + pollIntervalMs]
                ELSE IF answer.isComplete
                THEN [Report(answer) EXCEPT !.elapsed = check.elapsed + pollIntervalMs]
                ELSE [check EXCEPT !.status = answer, !.elapsed = check.elapsed + pollIntervalMs]
    /\ UNCHANGED <<parserVars, streamVars, now, netVars, daemonVars, inflight, syncProcess, timers,
                   shutdownPc, otherPhase>>

\* a workspace outside a repository and without the big-changes watcher
InitCheck ==
    /\ InitDaemon
    /\ env = [git |-> FALSE, bigChanges |-> FALSE]
    /\ files = {}

NextCheck ==
    \/ Start
    \/ Listening
    \/ \E data \in CheckerChunks : ProcessData(1, data)
    \/ Shutdown
    \/ \E success \in BOOLEAN : RunCheck(success)
    \/ \E answer \in StatusAnswers : FirstStatus(answer)
    \/ \E answer \in StatusAnswers : Poll(answer)

SpecCheck == InitCheck /\ [][NextCheck]_vars

\* C15: a check command whose status query resolved to null has run the
\* direct check.
C15_FallsBackWhenUnreachable ==
    check.pc = "done" /\ check.status = JsonNull => check.message = "direct"

\* C16: a check that went to the daemon prints output only of a complete
\* snapshot and then exits 0 exactly if that snapshot has no errors; it polls
\* while the snapshot it holds is incomplete; it reports the timeout only when
\* the ceiling has passed with an incomplete snapshot, with a message that is
\* not the one of a failed query; both failures exit 1.
C16_ReportsCompleteSnapshotsOnly ==
    /\ TimeoutMessage # FailedMessage
    /\ check.pc = "poll" => check.status # JsonNull /\ ~check.status.isComplete
    /\ check.message = "output"
           => /\ check.status # JsonNull
              /\ check.status.isComplete
              /\ (check.exitCode = 0) = ~check.status.hasErrors
              /\ check.exitCode \in {0, 1}
    /\ check.message = TimeoutMessage
           => /\ check.status # JsonNull
              /\ ~check.status.isComplete
              /\ check.elapsed >= maxWaitMs
              /\ check.exitCode = 1
    /\ check.message = FailedMessage => check.status = JsonNull /\ check.exitCode = 1

\* C16 witness: a check that polled twice or more exits 0 on a complete
\* snapshot with warnings and no errors.
C16_Witness ==
    /\ check.pc = "done"
    /\ check.message = "output"
    /\ check.elapsed >= 2 * pollIntervalMs
    /\ check.status.hasWarnings
    /\ check.exitCode = 0


(***************************************************************************)
(* shutdown() statement by statement.  The function runs to its end        *)
(* without returning to the event loop, so no other callback runs between  *)
(* its steps; the steps are kept apart to see their order.                 *)
(***************************************************************************)
\* shutdown() with the socket server closed before the child is killed
shutdownOrderServerFirst ==
    <<"timer", "routeFileWatcher", "gitHeadWatcher", "bigChangesWatcher", "server", "child",
      "cleanup", "exit">>

\* the statements of shutdown() in the order of the source (daemon.ts:280-299)
shutdownOrder ==
    <<"timer", "routeFileWatcher", "gitHeadWatcher", "bigChangesWatcher", "child", "server",
      "cleanup", "exit">>

\* the artifacts cleanup() unlinks; an unlinkSync that throws is caught (daemon.ts:262-277)
Artifacts == {"socket", "pid"}

\* the next statement of shutdown(); unlinked are the artifacts whose unlinkSync
\* succeeds when the statement is cleanup()
ShutdownStep(unlinked) ==
    /\ phase = "running" \/ phase = "stopping"
    /\ ~syncProcess.running
    /\ shutdownPc < Len(shutdownOrder)
    /\ LET step == shutdownOrder[shutdownPc + 1]
           close(watcher) == IF watcher = "null" THEN "null" ELSE "closed"
       IN  /\ shutdownPc' = shutdownPc + 1
           /\ phase' = IF step = "exit" THEN "exited" ELSE "stopping"
           /\ timers' = IF step = "timer" THEN clearTimeout(timers, syncDebounceTimer) ELSE timers
           /\ routeFileWatcher' = IF step = "routeFileWatcher" THEN close(routeFileWatcher)
                                  ELSE routeFileWatcher
           /\ gitHeadWatcher' = IF step = "gitHeadWatcher" THEN close(gitHeadWatcher) ELSE gitHeadWatcher
           /\ bigChangesWatcher' = IF step = "bigChangesWatcher" THEN close(bigChangesWatcher)
                                   ELSE bigChangesWatcher
           /\ procs' = IF step = "child" /\ svelteCheckProcess # 0
                       THEN [procs EXCEPT ![svelteCheckProcess].killed = TRUE]
                       ELSE procs
           /\ server' = IF step = "server" THEN close(server) ELSE server
           /\ socketFile' = IF step = "cleanup" /\ "socket" \in unlinked THEN "none" ELSE socketFile
           /\ pidFile' = IF step = "cleanup" /\ "pid" \in unlinked THEN "none" ELSE pidFile
    /\ UNCHANGED <<parserVars, streamVars, now, netVars, svelteCheckProcess, syncDebounceTimer, knownFiles,
                   env, files, inflight, syncProcess, otherPhase, check>>

NextShutdown ==
    \/ \E p \in 1..MaxProcs : \E data \in Chunks(p) : ProcessData(p, data)
    \/ \E p \in 1..MaxProcs : ProcessExit(p)
    \/ GitHeadChanged
    \/ \E t \in 1..MaxTimers : SyncTimerFires(t)
    \/ SyncExit
    \/ \E unlinked \in SUBSET Artifacts : ShutdownStep(unlinked)

SpecShutdown == InitServe /\ [][NextShutdown]_vars

\* the state shows that a step of shutdown() has had its effect
Begun(step) ==
    CASE step = "timer" ->
             phase # "running" /\ syncDebounceTimer # 0 /\ timers[syncDebounceTimer].state = "cleared"
      [] step = "routeFileWatcher" -> routeFileWatcher = "closed"
      [] step = "gitHeadWatcher" -> gitHeadWatcher = "closed"
      [] step = "bigChangesWatcher" -> bigChangesWatcher = "closed"
      [] step = "child" ->
             phase # "running" /\ svelteCheckProcess # 0 /\ procs[svelteCheckProcess].killed
      [] step = "server" -> server = "closed"
      [] step = "cleanup" -> pidFile = "none" \/ socketFile = "none"
      [] step = "exit" -> phase = "exited"

\* the state shows nothing a step of shutdown() still has to do (a failed
\* unlink leaves nothing to do)
Done(step) ==
    CASE step = "timer" -> syncDebounceTimer = 0 \/ timers[syncDebounceTimer].state # "pending"
      [] step = "routeFileWatcher" -> routeFileWatcher # "open"
      [] step = "gitHeadWatcher" -> gitHeadWatcher # "open"
      [] step = "bigChangesWatcher" -> bigChangesWatcher # "open"
      [] step = "child" -> svelteCheckProcess = 0 \/ procs[svelteCheckProcess].killed
      [] step = "server" -> server # "listening"
      [] step = "cleanup" -> TRUE
      [] step = "exit" -> phase = "exited"

\* no step has had its effect before the steps that precede it in order
InOrder(order) ==
    \A i, j \in 1..Len(order) : i < j /\ Begun(order[j]) => Done(order[i])

\* shutdown() once called goes on to its last statement, and has exited only
\* after that
RunsToExit ==
    /\ phase = "stopping" => ENABLED (\E unlinked \in SUBSET Artifacts : ShutdownStep(unlinked))
    /\ phase = "exited" <=> shutdownPc = 8

\* C17 as stated: timer, watchers, socket server, child, artifacts, exit; a
\* failed removal does not keep shutdown from exiting.
C17_ServerStopsBeforeChild ==
    /\ InOrder(<<"timer", "routeFileWatcher", "gitHeadWatcher", "bigChangesWatcher", "server",
                 "child", "cleanup", "exit">>)
    /\ RunsToExit

\* C17 amended: timer, watchers, child, socket server, artifacts, exit; a
\* failed removal does not keep shutdown from exiting.
C17_ChildIsKilledBeforeServerStops ==
    /\ InOrder(<<"timer", "routeFileWatcher", "gitHeadWatcher", "bigChangesWatcher", "child",
                 "server", "cleanup", "exit">>)
    /\ RunsToExit

\* C17 witness: shutdown() has cleared the pending timer, closed the watchers
\* and killed the child; the socket server is still listening.
C17_Witness ==
    /\ phase = "stopping"
    /\ syncDebounceTimer # 0 /\ timers[syncDebounceTimer].state = "cleared"
    /\ routeFileWatcher = "closed" /\ gitHeadWatcher = "closed"
    /\ svelteCheckProcess # 0 /\ procs[svelteCheckProcess].killed
    /\ server = "listening"
    /\ pidFile = "self" /\ socketFile = "self"


(***************************************************************************)
(* The route-file watcher with the clock: time passes in ticks of half the *)
(* debounce delay, also while the sync process runs.                       *)
(***************************************************************************)
MaxTicks == 4
TickMs == DebounceMs \div 2

\* time passes
Advance ==
    /\ now < MaxTicks * TickMs
    /\ now' = now + TickMs
    /\ UNCHANGED <<parserVars, streamVars, daemonVars, netVars, auxVars>>

NextDebounce ==
    \/ \E filename \in WorkspaceNames : RouteFileEvent(filename)
    \/ Advance
    \/ \E t \in 1..MaxTimers : SyncTimerFires(t)
    \/ SyncExit
    \/ \E data \in Chunks(1) : ProcessData(1, data)
    \/ Shutdown

SpecDebounce == InitServe /\ [][NextDebounce]_vars

\* the timers that are pending
Pending == {t \in 1..Len(timers) : timers[t].state = "pending"}

\* C18: at most one debounce timer is pending; once shutdown has begun none
\* is; of two matching events less than 250 ms apart the timer of the first
\* never fires, so a burst runs the sync process once: when the timer of its
\* last event fires, 250 ms or more after that event; a route-file event
\* leaves the checker processes and the snapshot alone; and the sync process
\* is run only by a daemon that has not begun shutdown.
C18_DebouncedSync ==
    [][/\ Cardinality(Pending') <= 1
       /\ phase' \notin {"starting", "running"} => Pending' = {}
       /\ \A t \in 1..(Len(timers') - 1) :
              timers'[t].state = "fired" => timers'[t + 1].due - timers'[t].due >= DebounceMs
       /\ syncProcess'.runs # syncProcess.runs
              => /\ syncProcess'.runs = syncProcess.runs + 1
                 /\ phase = "running" /\ phase' = "running"
                 /\ timers # <<>>
                 /\ timers[Len(timers)].state = "pending"
                 /\ timers'[Len(timers)].state = "fired"
                 /\ now >= timers[Len(timers)].due
       /\ Len(timers') > Len(timers)
              => /\ procs' = procs
                 /\ svelteCheckProcess' = svelteCheckProcess
                 /\ parserVars' = parserVars]_vars

\* C18 witness: two matching events half a delay apart; the timer of the first
\* was cleared, the timer of the second has fired and the sync process has
\* run once.
C18_Witness ==
    /\ Len(timers) = 2
    /\ timers[2].due - timers[1].due = TickMs
    /\ timers[1].state = "cleared"
    /\ timers[2].state = "fired"
    /\ syncProcess.runs = 1


(***************************************************************************)
(* The big-changes watcher over a directory of two known files that are    *)
(* deleted together.                                                       *)
(***************************************************************************)
BatchPaths == {"a.ts", "b.ts"}

\* the daemon after start() with SVELTE_CHECK_WATCH_BIG_CHANGES naming a
\* directory that holds the two files, outside a repository
InitBatch ==
    /\ now = 0
    /\ lastCompleteState = InitialSnapshot(now)
    /\ currentOutput = <<>>
    /\ lineBuffer = <<>>
    /\ committed = <<>>
    /\ stream = <<>>
    /\ delivered = 0
    /\ cuts = {}
    /\ phase = "running"
    /\ svelteCheckProcess = 1
    /\ procs = <<NewProcess>>
    /\ server = "listening"
    /\ routeFileWatcher = "open"
    /\ gitHeadWatcher = "null"
    /\ bigChangesWatcher = "open"
    /\ syncDebounceTimer = 0
    /\ knownFiles = BatchPaths
    /\ env = [git |-> FALSE, bigChanges |-> TRUE]
    /\ files = BatchPaths
    /\ pidFile = "self"
    /\ socketFile = "self"
    /\ NetIdle
    /\ AuxIdle

\* several files of the watched directory are deleted together
DeleteBatch(batch) ==
    /\ env.bigChanges
    /\ batch \subseteq files
    /\ Cardinality(batch) >= 2
    /\ files' = files \ batch
    /\ UNCHANGED <<parserVars, streamVars, now, auxVars, netVars, processVars, watcherVars, lifeVars>>

NextBatch ==
    \/ \E batch \in SUBSET BatchPaths : DeleteBatch(batch)
    \/ \E eventType \in {"rename", "change"} : \E filename \in BatchPaths \cup {NoName} :
          BigChangesEvent(eventType, filename)
    \/ \E p \in 1..MaxProcs : \E data \in Chunks(p) : ProcessData(p, data)
    \/ \E p \in 1..MaxProcs : ProcessExit(p)
    \/ Shutdown

SpecBatch == InitBatch /\ [][NextBatch]_vars

\* C20: the deletion of a batch of known files restarts the checker once:
\* no restart before the batch, one at most after it.
C20_OneRestartPerBatch ==
    Len(procs) - 1 <= (IF files = BatchPaths THEN 0 ELSE 1)

====
